---- MODULE Spec2Model ----
(***************************************************************************)
(* Audio-activity-gated speaker controller of algo-app:                    *)
(* src/src/contexts/audio-monitoring-context.tsx (AudioMonitoringProvider) *)
(* together with the part of src/src/hooks/useAudioCapture.ts it rests on. *)
(*                                                                         *)
(* The provider is a React component.  Its state is modelled as one record *)
(* (operator Cur) whose fields are the useState values and the useRef      *)
(* cells; every handler, timer callback and await continuation is an       *)
(* operator from records to records, run atomically (JavaScript is         *)
(* single-threaded between awaits), followed by Render, which re-runs the  *)
(* effects whose dependency arrays changed.  Time is wall-clock            *)
(* milliseconds, advanced in steps of TickMs.                              *)
(*                                                                         *)
(* Modelled configuration: a signed-in user, settings restored             *)
(* (hasRestoredStateRef), at least one paging device with linked speakers  *)
(* selected (so every gateway call is a real await), rampEnabled with      *)
(* dayNightMode off.  loggingEnabled and recordingEnabled are chosen in    *)
(* Init.  The level meter is the environment: Sample delivers any level.   *)
(*                                                                         *)
(* runStart and discarded are history variables: they record facts about   *)
(* the sample stream and are read by the properties only.                  *)
(***************************************************************************)
EXTENDS Integers, Sequences, FiniteSets, TLC

\* ---------------------------------------------------------------- bounds
MaxTicks == 7
MaxLogTicks == 3
MaxSessions == 1
MaxTargetChanges == 1
MaxLevelAbove == 2
MaxSamplesPerTick == 1
RampSeconds == 1
DisableDelayTicks == 1
MaxDevices == 2
MaxLogSlack == 2
MaxLogAppends == 3
MaxCaptures == 2
MaxFrames == 4
MaxDeviceChanges == 1

\* ------------------------------------------------------ program constants
TickMs == 500
DefaultThreshold == 5
DefaultSustain == 1000
LogCap == 500
DefaultRampDuration == 15
DefaultDayStart == 6
DefaultDayEnd == 18
DefaultNightRamp == 10

NULL == -1
NaN == -2
disableDelay == DisableDelayTicks * TickMs
sustainDuration == DefaultSustain
audioThreshold == DefaultThreshold
Levels == (audioThreshold - 1) .. (audioThreshold + MaxLevelAbove)
TargetVolumes == {25, 100}

\* Volumes are JavaScript numbers.  stepInterval divides the ramp duration
\* into RampSteps steps; RampSteps is kept a power of two, so every division
\* by it is exact in binary floating point and is modelled exactly by
\* integers counting 1/VolDen percent.
RampSteps == (RampSeconds * 1000) \div TickMs
VolDen == RampSteps ^ (MaxTicks + 1)
Pct(p) == p * VolDen

VARIABLES
  now,                      \* Date.now()
  sessions,                 \* number of startMonitoring calls so far
  targetChanges,            \* number of setTargetVolume calls so far
  samples,                  \* samples delivered since the clock last moved
  isCapturing,              \* useAudioCapture state.isCapturing
  capturePending,           \* startCapture awaiting getUserMedia
  audioLevel,               \* useAudioCapture state.audioLevel
  audioDetected,            \* useState
  speakersEnabled,          \* useState
  targetVolume,             \* useState
  loggingEnabled,           \* useState
  recordingEnabled,         \* useState
  rampEnabled,              \* useState
  selectedDevices,          \* useState: the TargetDeviceSet
  logs,                     \* useState
  sustainedAudioStartRef,   \* useRef<number | null>
  controllingSpakersRef,    \* useRef<boolean>
  audioDetectionTimeoutRef, \* useRef: the release timer
  volumeRampIntervalRef,    \* useRef: the ramp interval
  currentVolumeRef,         \* useRef<number>
  mediaRecorderRef,         \* useRef<MediaRecorder | null> and its state
  enableSeq,                \* the async enable sequence (effect, 810-818)
  disableSeq,               \* the async disable sequence (timer, 859-875)
  stopSeq,                  \* the async tail of stopMonitoring (913-918)
  gateway,                  \* the device gateway as the speakers see it
  liveIntervals,            \* the setInterval timers not yet cleared
  sent,                     \* history: the volume commands sent to the
                            \* gateway, kept while sent.on
  unit,                     \* the function under examination, its inputs
                            \* and its result (NoUnit: the whole provider)
  runStart,                 \* history: when the current unbroken run of
                            \* above-threshold samples began (NULL: none)
  discarded,                \* history: a silent sample has cut short a
                            \* sustain window that was in progress
  silence                   \* history: since when audioLevel has been at
                            \* or below the threshold (NULL: it is above)
                            \* and whether an AudioSilent entry was
                            \* appended since the last sample above it

vars == <<now, sessions, targetChanges, samples, isCapturing, capturePending, audioLevel, audioDetected,
          speakersEnabled, targetVolume, loggingEnabled, recordingEnabled, logs,
          sustainedAudioStartRef, controllingSpakersRef,
          audioDetectionTimeoutRef, volumeRampIntervalRef, currentVolumeRef,
          mediaRecorderRef, enableSeq, disableSeq, stopSeq, gateway,
          runStart, discarded, rampEnabled, liveIntervals, sent, unit,
          selectedDevices, silence>>

\* The horizon: with logging enabled the log records the history, so the
\* clock is stopped earlier.
MaxTime ==
  TickMs * (IF loggingEnabled /\ unit.kind # "cycle" THEN MaxLogTicks ELSE MaxTicks)

NoTimeout == [set |-> FALSE, due |-> 0, logging |-> FALSE, devices |-> {}]
NoInterval == [set |-> FALSE, due |-> 0, inc |-> 0, target |-> 0, devices |-> {}]
IdleEnable == [pc |-> "idle", target |-> 0, logging |-> FALSE, logTail |-> << >>,
               devices |-> {}]
IdleDisable == [pc |-> "idle", logging |-> FALSE, uploaded |-> FALSE, devices |-> {}]
IdleStop == [pc |-> "idle"]
NoSent == [on |-> FALSE, cmds |-> << >>]
NoUnit == [kind |-> "provider"]
NoSilence == [since |-> NULL, logged |-> FALSE, cancelled |-> FALSE]

\* The paging devices that can be selected, each with its linked speakers,
\* and the selection of the modelled configuration.
Devices == 1..MaxDevices
DefaultSelection == {1}
NoGateway == [volume |-> 0, speakers |-> "none", foreign |-> FALSE,
              addressed |-> {}, enabledOn |-> {}]

\* The whole program state as one record.
Cur ==
  [ isCapturing |-> isCapturing, capturePending |-> capturePending,
    audioLevel |-> audioLevel, audioDetected |-> audioDetected,
    speakersEnabled |-> speakersEnabled, targetVolume |-> targetVolume,
    loggingEnabled |-> loggingEnabled, recordingEnabled |-> recordingEnabled,
    logs |-> logs, sustainedAudioStartRef |-> sustainedAudioStartRef,
    controllingSpakersRef |-> controllingSpakersRef,
    audioDetectionTimeoutRef |-> audioDetectionTimeoutRef,
    volumeRampIntervalRef |-> volumeRampIntervalRef,
    currentVolumeRef |-> currentVolumeRef,
    mediaRecorderRef |-> mediaRecorderRef,
    enableSeq |-> enableSeq, disableSeq |-> disableSeq, stopSeq |-> stopSeq,
    gateway |-> gateway, rampEnabled |-> rampEnabled,
    liveIntervals |-> liveIntervals, sent |-> sent,
    selectedDevices |-> selectedDevices ]

Commit(s) ==
  /\ isCapturing' = s.isCapturing
  /\ capturePending' = s.capturePending
  /\ audioLevel' = s.audioLevel
  /\ audioDetected' = s.audioDetected
  /\ speakersEnabled' = s.speakersEnabled
  /\ targetVolume' = s.targetVolume
  /\ loggingEnabled' = s.loggingEnabled
  /\ recordingEnabled' = s.recordingEnabled
  /\ logs' = s.logs
  /\ sustainedAudioStartRef' = s.sustainedAudioStartRef
  /\ controllingSpakersRef' = s.controllingSpakersRef
  /\ audioDetectionTimeoutRef' = s.audioDetectionTimeoutRef
  /\ volumeRampIntervalRef' = s.volumeRampIntervalRef
  /\ currentVolumeRef' = s.currentVolumeRef
  /\ mediaRecorderRef' = s.mediaRecorderRef
  /\ enableSeq' = s.enableSeq
  /\ disableSeq' = s.disableSeq
  /\ stopSeq' = s.stopSeq
  /\ gateway' = s.gateway
  /\ rampEnabled' = s.rampEnabled
  /\ liveIntervals' = s.liveIntervals
  /\ sent' = s.sent
  /\ selectedDevices' = s.selectedDevices

Init ==
  /\ now = 0
  /\ sessions = 0
  /\ targetChanges = 0
  /\ samples = 0
  /\ isCapturing = FALSE
  /\ capturePending = FALSE
  /\ audioLevel = 0
  /\ audioDetected = FALSE
  /\ speakersEnabled = FALSE
  /\ targetVolume = 100
  /\ loggingEnabled \in BOOLEAN
  /\ recordingEnabled \in BOOLEAN
  /\ logs = << >>
  /\ sustainedAudioStartRef = NULL
  /\ controllingSpakersRef = FALSE
  /\ audioDetectionTimeoutRef = NoTimeout
  /\ volumeRampIntervalRef = NoInterval
  /\ currentVolumeRef = 0
  /\ mediaRecorderRef = "null"
  /\ enableSeq = IdleEnable
  /\ disableSeq = IdleDisable
  /\ stopSeq = IdleStop
  /\ gateway = NoGateway
  /\ runStart = NULL
  /\ discarded = FALSE
  /\ rampEnabled = TRUE
  /\ liveIntervals = 0
  /\ sent = NoSent
  /\ unit = NoUnit
  /\ selectedDevices = DefaultSelection
  /\ silence = NoSilence

\* ------------------------------------------------------------ activity log
Entry(type, msg, url) == [type |-> type, msg |-> msg, recordingUrl |-> url]

\* A variant of addLog that keeps the first LogCap entries of a log grown
\* too long: C17 must tell it from the code.
addLogKeepOldest(s, logging, entry) ==
  IF ~logging THEN s
  ELSE LET newLogs == Append(s.logs, entry)
       IN [s EXCEPT !.logs = IF Len(newLogs) > LogCap
                              THEN SubSeq(newLogs, 1, LogCap)
                              ELSE newLogs]

\* addLog (231-250); `logging` is the loggingEnabled the callback closed over.
addLog(s, logging, entry) ==
  IF ~logging THEN s
  ELSE LET newLogs == Append(s.logs, entry)
       IN [s EXCEPT !.logs = IF Len(newLogs) > LogCap
                              THEN SubSeq(newLogs, Len(newLogs) - LogCap + 1, Len(newLogs))
                              ELSE newLogs]

\* ---------------------------------------------------------- device gateway
\* The sequence that holds the controlling flag, if any.
InFlight(s) ==
  IF s.enableSeq.pc # "idle" THEN "enableSeq"
  ELSE IF s.disableSeq.pc # "idle" THEN "disableSeq"
  ELSE IF s.stopSeq.pc # "idle" THEN "stopSeq"
  ELSE "none"

\* A gateway operation issued by `by`; foreign: issued while another party's
\* control sequence holds the controlling flag.
Issue(s, by) ==
  [foreign |-> s.controllingSpakersRef /\ by # InFlight(s)]

\* The selectedDevices that the setDevicesVolume and controlSpeakers of the
\* caller closed over (631, 760): a control sequence and a timer keep the
\* callbacks of the render that started them; the target effect and
\* stopMonitoring have those of the current render.
Addressed(s, by) ==
  IF by = "enableSeq" THEN s.enableSeq.devices
  ELSE IF by = "disableSeq" THEN s.disableSeq.devices
  ELSE IF by = "rampTimer" THEN s.volumeRampIntervalRef.devices
  ELSE s.selectedDevices

\* setDevicesVolume (587-631): one POST /api/algo/settings per linked speaker.
setDevicesVolume(s, volume, by) ==
  [s EXCEPT !.gateway = Issue(s, by) @@
                        [volume |-> volume, speakers |-> s.gateway.speakers,
                         addressed |-> Addressed(s, by),
                         enabledOn |-> s.gateway.enabledOn],
            !.sent.cmds = IF s.sent.on THEN Append(@, volume) ELSE @]

\* controlSpeakers (728-760): POST /api/algo/speakers/mcast with enable.
controlSpeakers(s, enable, by) ==
  [s EXCEPT !.gateway = Issue(s, by) @@
                        [volume |-> s.gateway.volume,
                         speakers |-> IF enable THEN "enable" ELSE "disable",
                         addressed |-> Addressed(s, by),
                         enabledOn |-> IF enable
                                       THEN s.gateway.enabledOn \cup Addressed(s, by)
                                       ELSE s.gateway.enabledOn \ Addressed(s, by)]]

\* The reply of a gateway call (ok: it succeeded).  A failure is only
\* written to the console (625-627, 752-757): the provider's state is the
\* same either way.
speakersReply(s, ok) == s

\* -------------------------------------------------------- volume ramp engine
\* A variant of isDaytime that counts the hour dayEndHour as day: C16 must
\* tell it from the code.
isDaytimeInclusive(c, currentHour) ==
  currentHour >= c.dayStartHour /\ currentHour <= c.dayEndHour

\* isDaytime (633-637); c holds the ramp settings (useState, 196-201) and
\* currentHour is new Date().getHours().
isDaytime(c, currentHour) ==
  currentHour >= c.dayStartHour /\ currentHour < c.dayEndHour

\* getEffectiveRampDuration (640-662), in ms.
getEffectiveRampDuration(c, currentHour) ==
  IF ~c.rampEnabled THEN 0
  ELSE IF c.dayNightMode
       THEN (IF isDaytime(c, currentHour) THEN 0 ELSE c.nightRampDuration * 1000)
  ELSE c.rampDuration * 1000

\* The ramp settings of the modelled configuration: the defaults of 198-201
\* with the manual ramp lasting RampSeconds.
RampSettings(s) ==
  [rampEnabled |-> s.rampEnabled, dayNightMode |-> FALSE,
   dayStartHour |-> DefaultDayStart, dayEndHour |-> DefaultDayEnd,
   rampDuration |-> RampSeconds, nightRampDuration |-> DefaultNightRamp]

\* A variant of clearRampInterval that cancels nothing: C15 must tell it
\* from the code.
keepRampInterval(s) == [s EXCEPT !.volumeRampIntervalRef = NoInterval]

\* clearInterval(volumeRampIntervalRef.current) where the ref is not null
\* (666-668, 697, 720-722).  In the model the ref is `set` while it names a
\* live timer; 666-668 leave the id of the cleared timer in the ref, which
\* no later clearInterval can tell from null.
clearRampInterval(s) ==
  IF s.volumeRampIntervalRef.set
  THEN [s EXCEPT !.liveIntervals = @ - 1, !.volumeRampIntervalRef = NoInterval]
  ELSE s

\* A variant of startVolumeRamp that sends the start value first whatever
\* the duration: C14 must tell it from the code.
startVolumeRampFromStart(s, startFrom, target, by) ==
  LET effectiveRampDuration == getEffectiveRampDuration(RampSettings(s), 0)
      steps == effectiveRampDuration \div TickMs
      volumeIncrement == (Pct(target) - startFrom) \div steps
      s1 == setDevicesVolume([clearRampInterval(s) EXCEPT !.currentVolumeRef = startFrom],
                             startFrom, by)
  IN IF effectiveRampDuration = 0
     THEN setDevicesVolume([s1 EXCEPT !.currentVolumeRef = Pct(target)],
                           Pct(target), by)
     ELSE [s1 EXCEPT !.liveIntervals = @ + 1,
                     !.volumeRampIntervalRef =
                        [set |-> TRUE, due |-> now + TickMs,
                         inc |-> volumeIncrement, target |-> Pct(target),
                         devices |-> Addressed(s, by)]]

\* startVolumeRamp (665-716); target is the targetVolume the callback closed
\* over.  The settings are those of the modelled configuration but for
\* rampEnabled.
startVolumeRamp(s, startFrom, target, by) ==
  LET effectiveRampDuration == getEffectiveRampDuration(RampSettings(s), 0)
      steps == effectiveRampDuration \div TickMs
      volumeIncrement == (Pct(target) - startFrom) \div steps
      s1 == [clearRampInterval(s) EXCEPT !.currentVolumeRef = startFrom]
  IN IF effectiveRampDuration = 0
     THEN setDevicesVolume([s1 EXCEPT !.currentVolumeRef = Pct(target)],
                           Pct(target), by)
     ELSE setDevicesVolume([s1 EXCEPT !.liveIntervals = @ + 1,
                                      !.volumeRampIntervalRef =
                                         [set |-> TRUE, due |-> now + TickMs,
                                          inc |-> volumeIncrement, target |-> Pct(target),
                                          devices |-> Addressed(s, by)]],
                           startFrom, by)

\* The setInterval callback of startVolumeRamp (691-715).
rampStep(s) ==
  LET r == s.volumeRampIntervalRef
      cur == s.currentVolumeRef + r.inc
      done == \/ r.inc > 0 /\ cur >= r.target
              \/ r.inc < 0 /\ cur <= r.target
  IN IF done
     THEN clearRampInterval(setDevicesVolume([s EXCEPT !.currentVolumeRef = r.target],
                                             r.target, "rampTimer"))
     ELSE setDevicesVolume([s EXCEPT !.currentVolumeRef = cur,
                                     !.volumeRampIntervalRef.due = now + TickMs],
                           cur, "rampTimer")

\* A variant of stopVolumeRamp that cancels the timer and sends nothing:
\* C28 must tell it from the code.
stopVolumeRampSilently(s, by) == [clearRampInterval(s) EXCEPT !.currentVolumeRef = 0]

\* stopVolumeRamp (718-725).
stopVolumeRamp(s, by) ==
  setDevicesVolume([clearRampInterval(s) EXCEPT !.currentVolumeRef = 0], 0, by)

\* ------------------------------------------------- recorder / evidence pipeline
\* A variant of disableAfterUpload that always attaches a recording
\* reference: C10 must tell it from the code.
disableAfterUploadAlwaysUrl(s, url) ==
  LET s1 == addLog(s, s.disableSeq.logging, Entry("speakers_disabled", "silence", TRUE))
      s2 == stopVolumeRamp(s1, "disableSeq")
      s3 == setDevicesVolume(s2, 0, "disableSeq")
  IN [s3 EXCEPT !.disableSeq.pc = "vol0", !.disableSeq.uploaded = TRUE]

\* A variant of disableAfterUpload that appends no entry to the log: C30
\* must tell it from the code.
disableAfterUploadUnlogged(s, url) ==
  LET s2 == stopVolumeRamp(s, "disableSeq")
      s3 == setDevicesVolume(s2, 0, "disableSeq")
  IN [s3 EXCEPT !.disableSeq.pc = "vol0", !.disableSeq.uploaded = url]

\* The tail of the disable sequence once stopRecordingAndUpload has resolved
\* with a URL (url = TRUE) or with null (864-873, up to the second await).
disableAfterUpload(s, url) ==
  LET s1 == addLog(s, s.disableSeq.logging, Entry("speakers_disabled", "silence", url))
      s2 == stopVolumeRamp(s1, "disableSeq")
      s3 == setDevicesVolume(s2, 0, "disableSeq")
  IN [s3 EXCEPT !.disableSeq.pc = "vol0", !.disableSeq.uploaded = url]

\* stopRecordingAndUpload up to mediaRecorder.stop() (299-358).  stop() on a
\* recorder that is already inactive either throws InvalidStateError (caught,
\* resolve(null)) or returns without ever firing onstop, depending on the
\* browser: stopThrows chooses.
stopRecordingAndUpload(s, stopThrows) ==
  IF s.mediaRecorderRef = "null" THEN disableAfterUpload(s, FALSE)
  ELSE IF s.mediaRecorderRef = "recording"
       THEN [s EXCEPT !.mediaRecorderRef = "inactive", !.disableSeq.pc = "stopping"]
  ELSE IF stopThrows THEN disableAfterUpload(s, FALSE)
  ELSE [s EXCEPT !.disableSeq.pc = "hung"]

\* mediaRecorder.onstop and its awaits (308-351): one step per await; ok is
\* the outcome of the step (blob not empty, convertToMp3, uploadBytes,
\* getDownloadURL).  The clean-up of the refs is on the success path only.
recordingStep(s, ok) ==
  LET pc == s.disableSeq.pc
  IN IF ~ok THEN disableAfterUpload(s, FALSE)
     ELSE IF pc = "stopping" THEN [s EXCEPT !.disableSeq.pc = "convert"]
     ELSE IF pc = "convert" THEN [s EXCEPT !.disableSeq.pc = "upload"]
     ELSE IF pc = "upload" THEN [s EXCEPT !.disableSeq.pc = "geturl"]
     ELSE disableAfterUpload([s EXCEPT !.mediaRecorderRef = "null"], TRUE)

\* The rest of the disable sequence (872-874).
disableStep(s, ok) ==
  IF s.disableSeq.pc = "vol0"
  THEN [controlSpeakers(s, FALSE, "disableSeq") EXCEPT !.disableSeq.pc = "disable"]
  ELSE [speakersReply(s, ok) EXCEPT !.controllingSpakersRef = FALSE,
                                       !.disableSeq = IdleDisable]

\* The release timer's callback (847-878).
releaseTimeout(s, stopThrows) ==
  LET t == s.audioDetectionTimeoutRef
      s1 == IF ~s.controllingSpakersRef
            THEN stopRecordingAndUpload(
                   [s EXCEPT !.controllingSpakersRef = TRUE,
                             !.speakersEnabled = FALSE,
                             !.audioDetected = FALSE,
                             !.disableSeq = [IdleDisable EXCEPT !.pc = "begin",
                                                                !.logging = t.logging,
                                                                !.devices = t.devices]],
                   stopThrows)
            ELSE s
  IN [s1 EXCEPT !.audioDetectionTimeoutRef = NoTimeout]

\* ------------------------------------------------------------ enable sequence
LastTwo(q) == IF Len(q) < 2 THEN q ELSE SubSeq(q, Len(q) - 1, Len(q))

\* The async enable sequence after `await startRecording()` (814).
enableAfterRecording(s) ==
  [setDevicesVolume(s, 0, "enableSeq") EXCEPT !.enableSeq.pc = "vol0"]

\* The async enable sequence from its start to its first real await
\* (810-814); startRecording (253-296) returns at once when recording is
\* disabled.  logTail is what the log ends with when the sequence starts.
enableBegin(s) ==
  LET s1 == [s EXCEPT !.enableSeq = [IdleEnable EXCEPT !.pc = "rec",
                                                       !.target = s.targetVolume,
                                                       !.logging = s.loggingEnabled,
                                                       !.logTail = LastTwo(s.logs),
                                                       !.devices = s.selectedDevices]]
  IN IF s.recordingEnabled THEN s1 ELSE enableAfterRecording(s1)

\* getUserMedia has settled inside startRecording (266-295).
startRecordingDone(s, ok) ==
  enableAfterRecording(IF ok THEN [s EXCEPT !.mediaRecorderRef = "recording"] ELSE s)

\* The rest of the enable sequence (815-817).
enableStep(s, ok) ==
  IF s.enableSeq.pc = "vol0"
  THEN [controlSpeakers(s, TRUE, "enableSeq") EXCEPT !.enableSeq.pc = "enable"]
  ELSE [startVolumeRamp(speakersReply(s, ok), 0, s.enableSeq.target, "enableSeq")
          EXCEPT !.controllingSpakersRef = FALSE, !.enableSeq = IdleEnable]

\* A variant of activate that writes the two log entries after the
\* asynchronous sequence has begun: C9 must tell it from the code.
activateLogLast(s) ==
  LET s1 == enableBegin([s EXCEPT !.sustainedAudioStartRef = NULL,
                                  !.audioDetected = TRUE,
                                  !.controllingSpakersRef = TRUE,
                                  !.speakersEnabled = TRUE])
      s2 == addLog(s1, s.loggingEnabled, Entry("audio_detected", "sustained", FALSE))
  IN addLog(s2, s.loggingEnabled, Entry("speakers_enabled", "enabled", FALSE))

\* The enable transition of the detection effect (789-819).
activate(s) ==
  LET s1 == [s EXCEPT !.sustainedAudioStartRef = NULL,
                      !.audioDetected = TRUE,
                      !.controllingSpakersRef = TRUE,
                      !.speakersEnabled = TRUE]
      s2 == addLog(s1, s.loggingEnabled, Entry("audio_detected", "sustained", FALSE))
      s3 == addLog(s2, s.loggingEnabled, Entry("speakers_enabled", "enabled", FALSE))
  IN enableBegin(s3)

\* ------------------------------------------------------------------ effects
\* A variant of resetSustainTimer that keeps the window (partial credit):
\* C2 must tell it from the code.
keepSustainTimer(s) == s

\* The silent branch's reset of the sustain timer (832-835).
resetSustainTimer(s) == [s EXCEPT !.sustainedAudioStartRef = NULL]

\* A variant of clearDisableTimeout that leaves the countdown pending: C24
\* must tell it from the code.
keepDisableTimeout(s) == s

\* The loud branch's clearTimeout of the release timer (822-826).
clearDisableTimeout(s) == [s EXCEPT !.audioDetectionTimeoutRef = NoTimeout]

\* The audio activity detection effect (763-882), run on the rendered state s.
detectionEffect(s) ==
  IF ~s.isCapturing
  THEN [s EXCEPT !.sustainedAudioStartRef = NULL]
  ELSE IF s.audioLevel > audioThreshold
  THEN LET s1 == IF s.sustainedAudioStartRef = NULL /\ ~s.speakersEnabled
                 THEN [s EXCEPT !.sustainedAudioStartRef = now]
                 ELSE s
           s2 == IF /\ s1.sustainedAudioStartRef # NULL
                    /\ ~s1.speakersEnabled
                    /\ ~s1.controllingSpakersRef
                    /\ now - s1.sustainedAudioStartRef >= sustainDuration
                 THEN activate(s1)
                 ELSE s1
       IN clearDisableTimeout(s2)
  ELSE LET s1 == resetSustainTimer(s)
       IN IF s1.audioDetected /\ s1.speakersEnabled /\ ~s1.audioDetectionTimeoutRef.set
          THEN [addLog(s1, s1.loggingEnabled, Entry("audio_silent", "countdown", FALSE))
                  EXCEPT !.audioDetectionTimeoutRef =
                           [set |-> TRUE, due |-> now + disableDelay,
                            logging |-> s1.loggingEnabled,
                            devices |-> s1.selectedDevices]]
          ELSE s1

\* The target volume effect (572-584).
targetVolumeEffect(s) ==
  IF s.speakersEnabled /\ ~s.controllingSpakersRef
  THEN startVolumeRamp(s, s.currentVolumeRef, s.targetVolume, "targetEffect")
  ELSE s

\* Dependency arrays: have the values an effect depends on changed between
\* the render a and the render b?  (584; 882 with the dependencies of the
\* callbacks it names: 250, 296, 716.)
targetDepsChanged(a, b) ==
  a.targetVolume # b.targetVolume \/ a.speakersEnabled # b.speakersEnabled

detectionDepsChanged(a, b) ==
  \/ a.audioLevel # b.audioLevel
  \/ a.isCapturing # b.isCapturing
  \/ a.audioDetected # b.audioDetected
  \/ a.speakersEnabled # b.speakersEnabled
  \/ a.targetVolume # b.targetVolume
  \/ a.loggingEnabled # b.loggingEnabled
  \/ a.recordingEnabled # b.recordingEnabled
  \/ a.selectedDevices # b.selectedDevices

\* One commit: the effects whose dependencies changed, in declaration order.
runEffects(a, b) ==
  LET b1 == IF targetDepsChanged(a, b) THEN targetVolumeEffect(b) ELSE b
  IN IF detectionDepsChanged(a, b) THEN detectionEffect(b1) ELSE b1

\* A handler took the state from a to b: React renders and runs the effects,
\* and renders again for the state the effects set.
Render(a, b) ==
  LET c == runEffects(a, b)
  IN runEffects(b, c)

\* ----------------------------------------------------------------- handlers
\* startMonitoring (884-892) up to the await in startCapture (67-138).
startMonitoring(s) ==
  [addLog(s, s.loggingEnabled, Entry("audio_detected", "started", FALSE))
     EXCEPT !.capturePending = TRUE]

\* startCapture after getUserMedia settled (102-137).
startCaptureDone(s, ok) ==
  [s EXCEPT !.capturePending = FALSE, !.isCapturing = IF ok THEN TRUE ELSE @]

\* stopCapture (140-185) as far as the provider sees it.
stopCapture(s) == [s EXCEPT !.isCapturing = FALSE, !.audioLevel = 0]

\* A variant of stopMonitoring without the controlling guard of line 913:
\* C3 must tell it from the code.
stopMonitoringUnguarded(s) ==
  LET s1 == addLog(s, s.loggingEnabled, Entry("speakers_disabled", "stopped", FALSE))
      s2 == stopVolumeRamp(stopCapture(s1), "stopMonitoring")
  IN IF s.speakersEnabled
     THEN controlSpeakers([s2 EXCEPT !.controllingSpakersRef = TRUE,
                                     !.speakersEnabled = FALSE,
                                     !.stopSeq.pc = "disable"],
                          FALSE, "stopSeq")
     ELSE s2

\* stopMonitoring (894-919) up to its await.
stopMonitoring(s) ==
  LET s1 == addLog(s, s.loggingEnabled, Entry("speakers_disabled", "stopped", FALSE))
      s2 == stopVolumeRamp(stopCapture(s1), "stopMonitoring")
  IN IF s.speakersEnabled /\ ~s.controllingSpakersRef
     THEN controlSpeakers([s2 EXCEPT !.controllingSpakersRef = TRUE,
                                     !.speakersEnabled = FALSE,
                                     !.stopSeq.pc = "disable"],
                          FALSE, "stopSeq")
     ELSE s2

\* stopMonitoring after `await controlSpeakers(false)` (917).
stopMonitoringDone(s, ok) ==
  [speakersReply(s, ok) EXCEPT !.controllingSpakersRef = FALSE, !.stopSeq = IdleStop]

\* ------------------------------------------------------------------ actions
\* The step appends an AudioSilent entry to the log.
AppendedSilent ==
  \E i \in (Len(logs) + 1)..Len(logs') : logs'[i].type = "audio_silent"

\* The history of the silence is kept in the specification that examines
\* it (SilenceSpec) and left alone in the others.
SilenceKept == unit.kind = "silence"

\* The history of the silence after a step: since when audioLevel has been
\* at or below the threshold without interruption (a sample above it ends
\* the silence; stopCapture sets the level to 0), and whether an AudioSilent
\* entry was appended in that time; and whether a sample above the
\* threshold has found a release countdown pending.
SilenceGoesOn ==
  silence' = IF ~SilenceKept THEN silence
             ELSE IF audioLevel' > audioThreshold
             THEN [NoSilence EXCEPT !.cancelled = silence.cancelled
                                                    \/ audioDetectionTimeoutRef.set]
             ELSE [since |-> IF silence.since = NULL THEN now ELSE silence.since,
                   logged |-> silence.logged \/ AppendedSilent,
                   cancelled |-> silence.cancelled]

Step(s) ==
  /\ Commit(Render(Cur, s))
  /\ SilenceGoesOn
  /\ UNCHANGED <<now, sessions, targetChanges, samples, runStart, discarded, unit>>

\* No timer is due: timers fire before the clock moves on.
NoneDue ==
  /\ ~(audioDetectionTimeoutRef.set /\ audioDetectionTimeoutRef.due <= now)
  /\ ~(volumeRampIntervalRef.set /\ volumeRampIntervalRef.due <= now)

Tick ==
  /\ now < MaxTime
  /\ NoneDue
  /\ now' = now + TickMs
  /\ samples' = 0
  /\ UNCHANGED <<sessions, targetChanges, isCapturing, capturePending, audioLevel, audioDetected,
                 speakersEnabled, targetVolume, loggingEnabled, recordingEnabled, logs,
                 sustainedAudioStartRef, controllingSpakersRef,
                 audioDetectionTimeoutRef, volumeRampIntervalRef, currentVolumeRef,
                 mediaRecorderRef, enableSeq, disableSeq, stopSeq, gateway,
                 runStart, discarded, rampEnabled, liveIntervals, sent, unit,
                 selectedDevices, silence>>

\* The level meter delivers a sample (useAudioCapture.ts 62); the meter runs
\* at a fixed cadence, so only so many samples arrive between two ticks.  A
\* sample equal to the last one changes no state and no dependency, so no
\* effect runs for it.
Sample ==
  /\ isCapturing
  /\ samples < MaxSamplesPerTick
  /\ samples' = samples + 1
  /\ \E level \in Levels :
        /\ Commit(Render(Cur, [Cur EXCEPT !.audioLevel = level]))
        /\ runStart' = IF level > audioThreshold
                       THEN (IF runStart = NULL THEN now ELSE runStart)
                       ELSE NULL
        /\ discarded' = \/ discarded
                        \/ /\ level <= audioThreshold
                           /\ ~speakersEnabled
                           /\ sustainedAudioStartRef # NULL
                           /\ now > sustainedAudioStartRef
        /\ SilenceGoesOn
  /\ UNCHANGED <<now, sessions, targetChanges, unit>>

StartMonitoring ==
  /\ ~isCapturing /\ ~capturePending
  /\ sessions < MaxSessions
  /\ sessions' = sessions + 1
  /\ Commit(Render(Cur, startMonitoring(Cur)))
  /\ SilenceGoesOn
  /\ UNCHANGED <<now, targetChanges, samples, runStart, discarded, unit>>

StartCaptureDone ==
  /\ capturePending
  /\ \E ok \in BOOLEAN : Step(startCaptureDone(Cur, ok))

StopMonitoring ==
  /\ isCapturing
  /\ Commit(Render(Cur, stopMonitoring(Cur)))
  /\ runStart' = NULL
  /\ SilenceGoesOn
  /\ UNCHANGED <<now, sessions, targetChanges, samples, discarded, unit>>

StopMonitoringDone ==
  /\ stopSeq.pc = "disable"
  /\ \E ok \in BOOLEAN : Step(stopMonitoringDone(Cur, ok))

SetTargetVolume ==
  /\ targetChanges < MaxTargetChanges
  /\ targetChanges' = targetChanges + 1
  /\ \E v \in TargetVolumes \ {targetVolume} :
        Commit(Render(Cur, [Cur EXCEPT !.targetVolume = v]))
  /\ SilenceGoesOn
  /\ UNCHANGED <<now, sessions, samples, runStart, discarded, unit>>

ReleaseTimeout ==
  /\ audioDetectionTimeoutRef.set
  /\ audioDetectionTimeoutRef.due <= now
  /\ \E stopThrows \in BOOLEAN : Step(releaseTimeout(Cur, stopThrows))

RampInterval ==
  /\ volumeRampIntervalRef.set
  /\ volumeRampIntervalRef.due <= now
  /\ Step(rampStep(Cur))

StartRecordingDone ==
  /\ enableSeq.pc = "rec"
  /\ \E ok \in BOOLEAN : Step(startRecordingDone(Cur, ok))

EnableStep ==
  /\ enableSeq.pc \in {"vol0", "enable"}
  /\ \E ok \in BOOLEAN : Step(enableStep(Cur, ok))

RecordingStep ==
  /\ disableSeq.pc \in {"stopping", "convert", "upload", "geturl"}
  /\ \E ok \in BOOLEAN : Step(recordingStep(Cur, ok))

DisableStep ==
  /\ disableSeq.pc \in {"vol0", "disable"}
  /\ \E ok \in BOOLEAN : Step(disableStep(Cur, ok))

Next ==
  \/ Tick
  \/ Sample
  \/ StartMonitoring
  \/ StartCaptureDone
  \/ StopMonitoring
  \/ StopMonitoringDone
  \/ SetTargetVolume
  \/ ReleaseTimeout
  \/ RampInterval
  \/ StartRecordingDone
  \/ EnableStep
  \/ RecordingStep
  \/ DisableStep

Spec == Init /\ [][Next]_vars

TypeOK ==
  /\ now \in 0..MaxTime
  /\ audioLevel \in Levels \cup {0}
  /\ mediaRecorderRef \in {"null", "recording", "inactive"}
  /\ enableSeq.pc \in {"idle", "rec", "vol0", "enable"}
  /\ disableSeq.pc \in {"idle", "stopping", "convert", "upload", "geturl", "vol0",
                        "disable", "hung"}
  /\ stopSeq.pc \in {"idle", "disable"}
  /\ runStart \in {NULL} \cup 0..MaxTime
  /\ discarded \in BOOLEAN
  /\ liveIntervals \in 0..1
  /\ volumeRampIntervalRef.set <=> liveIntervals = 1

\* ------------------------------------------- states used as starting points
\* The program variables hold the record s.
Holds(s) ==
  /\ isCapturing = s.isCapturing
  /\ capturePending = s.capturePending
  /\ audioLevel = s.audioLevel
  /\ audioDetected = s.audioDetected
  /\ speakersEnabled = s.speakersEnabled
  /\ targetVolume = s.targetVolume
  /\ loggingEnabled = s.loggingEnabled
  /\ recordingEnabled = s.recordingEnabled
  /\ logs = s.logs
  /\ sustainedAudioStartRef = s.sustainedAudioStartRef
  /\ controllingSpakersRef = s.controllingSpakersRef
  /\ audioDetectionTimeoutRef = s.audioDetectionTimeoutRef
  /\ volumeRampIntervalRef = s.volumeRampIntervalRef
  /\ currentVolumeRef = s.currentVolumeRef
  /\ mediaRecorderRef = s.mediaRecorderRef
  /\ selectedDevices = s.selectedDevices
  /\ enableSeq = s.enableSeq
  /\ disableSeq = s.disableSeq
  /\ stopSeq = s.stopSeq
  /\ gateway = s.gateway
  /\ rampEnabled = s.rampEnabled
  /\ liveIntervals = s.liveIntervals
  /\ sent = s.sent

\* The provider as constructed (181-220), recording disabled.
Quiet(logging) ==
  [ isCapturing |-> FALSE, capturePending |-> FALSE, audioLevel |-> 0,
    audioDetected |-> FALSE, speakersEnabled |-> FALSE, targetVolume |-> 100,
    loggingEnabled |-> logging, recordingEnabled |-> FALSE, logs |-> << >>,
    sustainedAudioStartRef |-> NULL, controllingSpakersRef |-> FALSE,
    audioDetectionTimeoutRef |-> NoTimeout, volumeRampIntervalRef |-> NoInterval,
    currentVolumeRef |-> 0, mediaRecorderRef |-> "null",
    enableSeq |-> IdleEnable, disableSeq |-> IdleDisable, stopSeq |-> IdleStop,
    gateway |-> NoGateway, selectedDevices |-> DefaultSelection,
    rampEnabled |-> TRUE, liveIntervals |-> 0, sent |-> NoSent ]

\* Monitoring, with audio above the threshold since sustainDuration ago.
Listening(logging) ==
  [addLog(Quiet(logging), logging, Entry("audio_detected", "started", FALSE))
     EXCEPT !.isCapturing = TRUE,
            !.audioLevel = audioThreshold + 1,
            !.sustainedAudioStartRef = now - sustainDuration]

\* Each state below is the one a handler leaves, effects included, when run
\* in the state before it; the state before is bound to x, so that it is
\* evaluated once.

\* The next sample activates: the enable sequence awaits setDevicesVolume(0).
NextSampleLoud(s) == [s EXCEPT !.audioLevel = audioThreshold + 2]
Enabling(logging) ==
  CHOOSE r \in {Render(x, NextSampleLoud(x)) : x \in {Listening(logging)}} : TRUE

\* setDevicesVolume(0) has returned: the sequence awaits controlSpeakers(true).
EnablingSpeakers(logging) ==
  CHOOSE r \in {Render(x, enableStep(x, TRUE)) : x \in {Enabling(logging)}} : TRUE

\* Both gateway calls of the enable sequence have returned: Active.
Active(logging) ==
  CHOOSE r \in {Render(x, enableStep(x, TRUE)) : x \in {EnablingSpeakers(logging)}} : TRUE

\* A silent sample has arrived: the release timer is pending.
NextSampleSilent(s) == [s EXCEPT !.audioLevel = audioThreshold]
Releasing(logging) ==
  CHOOSE r \in {Render(x, NextSampleSilent(x)) : x \in {Active(logging)}} : TRUE

\* The release timer has fired: the disable sequence awaits
\* setDevicesVolume(0).
Disabling(logging) ==
  CHOOSE r \in {Render(x, releaseTimeout(x, TRUE)) : x \in {Releasing(logging)}} : TRUE

\* stopMonitoring was called while Active: it awaits controlSpeakers(false).
Stopping(logging) ==
  CHOOSE r \in {Render(x, stopMonitoring(x)) : x \in {Active(logging)}} : TRUE

\* ------------------------------------------------ the silence and its timer
\* SilenceSpec is the provider with the history of the silence kept, the
\* recording disabled: startRecording returns at once (254-257), no recorder
\* exists and the steps of the recording pipeline never occur.
SilenceInit ==
  /\ \E s \in {Quiet(FALSE)} :
        \E logging \in BOOLEAN : Holds([s EXCEPT !.loggingEnabled = logging])
  /\ now = 0
  /\ sessions = 0
  /\ targetChanges = 0
  /\ samples = 0
  /\ runStart = NULL
  /\ discarded = FALSE
  /\ silence = [NoSilence EXCEPT !.since = 0]
  /\ unit = [kind |-> "silence"]

SilenceNext ==
  \/ Tick
  \/ Sample
  \/ StartMonitoring
  \/ StartCaptureDone
  \/ StopMonitoring
  \/ StopMonitoringDone
  \/ SetTargetVolume
  \/ ReleaseTimeout
  \/ RampInterval
  \/ EnableStep
  \/ DisableStep

SilenceSpec == SilenceInit /\ [][SilenceNext]_vars

\* ------------------------------------------- changes of the TargetDeviceSet
\* TargetSpec is the provider in its last monitoring session, from the
\* moment audio has been above the threshold for sustainDuration, with the
\* user changing the selection of devices (live/page.tsx 106-119); the log
\* and the recording are disabled and the target volume is left alone.
\* unit counts the changes and records whether the last one was made while
\* a control sequence was in flight.
SelectableSets == {{1}, {2}, {1, 2}}

TargetInit ==
  /\ now = sustainDuration
  /\ sessions = MaxSessions
  /\ targetChanges = 0
  /\ samples = 0
  /\ runStart = 0
  /\ discarded = FALSE
  /\ silence = NoSilence
  /\ unit = [kind |-> "devices", changes |-> 0, inFlight |-> FALSE]
  /\ \E s \in {Listening(FALSE)} : Holds(s)

\* setSelectedDevices (929-931).
setSelectedDevices(s, devs) == [s EXCEPT !.selectedDevices = devs]

SetSelectedDevices ==
  /\ unit.kind = "devices"
  /\ unit.changes < MaxDeviceChanges
  /\ unit' = [unit EXCEPT !.changes = @ + 1, !.inFlight = controllingSpakersRef]
  /\ \E devs \in SelectableSets \ {selectedDevices} :
        Commit(Render(Cur, setSelectedDevices(Cur, devs)))
  /\ SilenceGoesOn
  /\ UNCHANGED <<now, sessions, targetChanges, samples, runStart, discarded>>

TargetNext ==
  \/ SetSelectedDevices
  \/ Tick
  \/ Sample
  \/ StopMonitoring
  \/ StopMonitoringDone
  \/ ReleaseTimeout
  \/ RampInterval
  \/ EnableStep
  \/ DisableStep

TargetSpec == TargetInit /\ [][TargetNext]_vars

\* ------------------------------------------- activation after deactivation
\* CycleSpec is the provider with the log enabled, in a monitoring session
\* from the moment audio has been above the threshold for sustainDuration,
\* followed long enough for the speakers to be activated, deactivated (by
\* the release timer or by stopMonitoring) and activated again.  The target
\* volume is left alone, and the user may stop and start monitoring once
\* more.
CycleInit ==
  /\ now = sustainDuration
  /\ sessions = MaxSessions - 1
  /\ targetChanges = 0
  /\ samples = 0
  /\ runStart = 0
  /\ discarded = FALSE
  /\ silence = NoSilence
  /\ unit = [kind |-> "cycle"]
  /\ \E rec \in BOOLEAN :
        \E s \in {[Listening(TRUE) EXCEPT !.recordingEnabled = rec]} : Holds(s)

CycleNext ==
  \/ Tick
  \/ Sample
  \/ StartMonitoring
  \/ StartCaptureDone
  \/ StopMonitoring
  \/ StopMonitoringDone
  \/ ReleaseTimeout
  \/ RampInterval
  \/ StartRecordingDone
  \/ EnableStep
  \/ RecordingStep
  \/ DisableStep

CycleSpec == CycleInit /\ [][CycleNext]_vars

\* -------------------------------------------- gateway batches, per device
\* Spec treats a gateway call as one reply.  BatchSpec examines the calls of
\* setDevicesVolume and controlSpeakers device by device, for the three
\* control sequences: n paging devices are selected, device d with its
\* linked speaker d, and every call that concerns d ends as outcome[d] says.
Outcomes == {"ok", "notOk", "throws"}

\* setDevicesVolume (608-630): the map starts one fetch per linked speaker,
\* each in its own try/catch; Promise.all awaits them all.
volumeBatch(n) ==
  [op |-> "volume", called |-> 1..n, replied |-> {}, settled |-> "pending"]

\* The fetch for speaker d has settled with outcome o (612-628).
volumeReply(b, d, o, n) ==
  LET replied == b.replied \cup {d}
  IN [b EXCEPT !.replied = replied,
               !.settled = IF replied = 1..n THEN "resolved" ELSE "pending"]

\* controlSpeakers (729-759) up to its first await: the fetch for the first
\* selected device.
speakersBatch(n) ==
  [op |-> "speakers", called |-> {1}, replied |-> {}, settled |-> "pending"]

\* A variant of mcastReply in which a failed call ends the loop and
\* rejects the promise: C11 must tell it from the code.
mcastReplyAbort(b, d, o, n) ==
  IF o # "ok" THEN [b EXCEPT !.replied = @ \cup {d}, !.settled = "rejected"]
  ELSE [b EXCEPT !.replied = @ \cup {d},
                 !.called = IF d < n THEN @ \cup {d + 1} ELSE @,
                 !.settled = IF d < n THEN "pending" ELSE "resolved"]

\* The fetch for device d has settled with outcome o (737-757): a response
\* that is not ok and an exception are written to the console, and the loop
\* goes on to the next device.
mcastReply(b, d, o, n) ==
  [b EXCEPT !.replied = @ \cup {d},
            !.called = IF d < n THEN @ \cup {d + 1} ELSE @,
            !.settled = IF d < n THEN "pending" ELSE "resolved"]

\* The continuation of the control sequence that awaits the batch, and the
\* batch it issues next.
batchContinue(s, ok) ==
  IF s.enableSeq.pc # "idle" THEN enableStep(s, ok)
  ELSE IF s.disableSeq.pc # "idle" THEN disableStep(s, ok)
  ELSE IF s.stopSeq.pc # "idle" THEN stopMonitoringDone(s, ok)
  ELSE s

nextBatch(s, b, n) ==
  IF s.enableSeq.pc = "vol0" \/ s.disableSeq.pc = "vol0" THEN speakersBatch(n)
  ELSE IF s.enableSeq.pc = "enable" THEN volumeBatch(n)
  ELSE b

FirstBatch(q, n) == IF q = "stop" THEN speakersBatch(n) ELSE volumeBatch(n)

BatchStart(q, logging) ==
  IF q = "enable" THEN Enabling(logging)
  ELSE IF q = "disable" THEN Disabling(logging)
  ELSE Stopping(logging)

BatchInit ==
  /\ now = sustainDuration + disableDelay
  /\ sessions = 1
  /\ targetChanges = 0
  /\ samples = 1
  /\ runStart = NULL
  /\ discarded = FALSE
  /\ \E n \in 1..MaxDevices, q \in {"enable", "disable", "stop"},
        logging \in BOOLEAN :
        /\ \E o \in [1..n -> Outcomes] :
              unit = [kind |-> "batch", seq |-> q, n |-> n, outcome |-> o,
                      batch |-> FirstBatch(q, n), failed |-> FALSE]
        /\ \E s \in {BatchStart(q, logging)} : Holds(s)
        /\ silence = NoSilence

\* A reply settles the batch b: the awaiting sequence, if any, goes on.
BatchStep(b, o) ==
  LET ok == \A d \in 1..unit.n : unit.outcome[d] = "ok"
      s == IF b.settled = "resolved" THEN batchContinue(Cur, ok) ELSE Cur
  IN /\ Commit(Render(Cur, s))
     /\ unit' = [unit EXCEPT !.failed = @ \/ o # "ok",
                             !.batch = IF b.settled = "resolved"
                                       THEN nextBatch(Cur, b, unit.n) ELSE b]
     /\ SilenceGoesOn
     /\ UNCHANGED <<now, sessions, targetChanges, samples, runStart, discarded>>

VolumeReply ==
  /\ unit.batch.op = "volume" /\ unit.batch.settled = "pending"
  /\ \E d \in unit.batch.called \ unit.batch.replied :
        BatchStep(volumeReply(unit.batch, d, unit.outcome[d], unit.n), unit.outcome[d])

SpeakersReply ==
  /\ unit.batch.op = "speakers" /\ unit.batch.settled = "pending"
  /\ \E d \in unit.batch.called \ unit.batch.replied :
        BatchStep(mcastReply(unit.batch, d, unit.outcome[d], unit.n), unit.outcome[d])

BatchNext == VolumeReply \/ SpeakersReply

BatchSpec == BatchInit /\ [][BatchNext]_vars

\* ------------------------------------------------------ the ramp on its own
\* RampSpec examines startVolumeRamp for every start and target in
\* RampPercents, with the ramp enabled or not, called while the machine is
\* Active and the previous ramp is still running or is over.  The commands
\* sent are recorded from the call on.
RampPercents == {0, 25, 50, 100}

RampInit ==
  /\ now = sustainDuration
  /\ sessions = 1
  /\ targetChanges = 0
  /\ samples = 1
  /\ runStart = NULL
  /\ discarded = FALSE
  /\ silence = NoSilence
  /\ \E prev \in {"running", "over"}, start \in RampPercents, target \in RampPercents,
        enabled \in BOOLEAN :
        /\ unit = [kind |-> "ramp", prev |-> prev, start |-> start,
                   started |-> FALSE, startedAt |-> 0]
        /\ \E a \in {Active(FALSE)} :
              Holds([a EXCEPT !.targetVolume = target,
                              !.rampEnabled = enabled,
                              !.volumeRampIntervalRef =
                                 IF prev = "running" THEN @ ELSE NoInterval,
                              !.liveIntervals = IF prev = "running" THEN @ ELSE 0,
                              !.currentVolumeRef =
                                 IF prev = "running" THEN @ ELSE a.volumeRampIntervalRef.target,
                              !.gateway.volume =
                                 IF prev = "running" THEN @ ELSE a.volumeRampIntervalRef.target])

RampStart ==
  /\ ~unit.started
  /\ Commit(Render(Cur, startVolumeRamp([Cur EXCEPT !.sent.on = TRUE],
                                        Pct(unit.start), targetVolume, "targetEffect")))
  /\ unit' = [unit EXCEPT !.started = TRUE, !.startedAt = now]
  /\ SilenceGoesOn
  /\ UNCHANGED <<now, sessions, targetChanges, samples, runStart, discarded>>

RampNext == RampStart \/ Tick \/ RampInterval

RampSpec == RampInit /\ [][RampNext]_vars

\* ------------------------------------------- the ramp duration on its own
\* Everything but `unit`: left alone by the specifications that examine a
\* function of the settings, of the log or of the stored values.
provider ==
  <<now, sessions, targetChanges, samples, isCapturing, capturePending, audioLevel,
    audioDetected, speakersEnabled, targetVolume, loggingEnabled, recordingEnabled,
    sustainedAudioStartRef, controllingSpakersRef, audioDetectionTimeoutRef,
    volumeRampIntervalRef, currentVolumeRef, mediaRecorderRef, enableSeq,
    disableSeq, stopSeq, gateway, runStart, discarded, rampEnabled,
    liveIntervals, sent, selectedDevices, silence>>

\* The provider before monitoring starts, the log holding q.
Constructed(q) ==
  /\ now = 0
  /\ sessions = 0
  /\ targetChanges = 0
  /\ samples = 0
  /\ runStart = NULL
  /\ discarded = FALSE
  /\ silence = NoSilence
  /\ \E s \in {[Quiet(TRUE) EXCEPT !.logs = q]} : Holds(s)

\* DurationSpec examines getEffectiveRampDuration for every hour of the day
\* and settings that include a day ending at midnight and a day that starts
\* after it ends.
Hours == 0..23
DayStartHours == {0, DefaultDayStart, 20}
DayEndHours == {DefaultDayStart, DefaultDayEnd, 24}

DurationInit ==
  /\ Constructed(<< >>)
  /\ \E enabled \in BOOLEAN, dayNight \in BOOLEAN, h \in Hours,
        startHour \in DayStartHours, endHour \in DayEndHours :
        unit = [kind |-> "duration",
                c |-> [rampEnabled |-> enabled, dayNightMode |-> dayNight,
                       dayStartHour |-> startHour, dayEndHour |-> endHour,
                       rampDuration |-> DefaultRampDuration,
                       nightRampDuration |-> DefaultNightRamp],
                currentHour |-> h, called |-> FALSE, result |-> 0]

GetEffectiveRampDuration ==
  /\ ~unit.called
  /\ unit' = [unit EXCEPT !.called = TRUE,
                          !.result = getEffectiveRampDuration(unit.c, unit.currentHour)]
  /\ UNCHANGED provider
  /\ UNCHANGED logs

DurationNext == GetEffectiveRampDuration

DurationSpec == DurationInit /\ [][DurationNext]_vars

\* ------------------------------------------------------ the log on its own
\* exportLogs (986-994): the header line, then one line per entry, joined by
\* newlines.  The text is modelled as the sequence of its cells (each one
\* quoted in the code) and newlines.  The entries of the model carry the
\* type and the message: the timestamp cell stands for toLocaleString of the
\* entry's timestamp and the four optional columns are empty (`?? ''`).
NL == "\n"
Header == <<"Timestamp", "Type", "Audio Level", "Threshold", "Speakers", "Volume", "Message">>
Row(log) == <<"timestamp", log.type, "", "", "", "", log.msg>>

\* rows.join("\n") for the rows of the log q.
JoinRows(q) ==
  LET W == Len(Header)
      total == IF Len(q) = 0 THEN 0 ELSE Len(q) * (W + 1) - 1
  IN [k \in 1..total |->
        IF k % (W + 1) = 0 THEN NL
        ELSE Row(q[((k - 1) \div (W + 1)) + 1])[((k - 1) % (W + 1)) + 1]]

\* The log q newest first, as the log viewer shows it.
Reversed(q) == [i \in 1..Len(q) |-> q[Len(q) + 1 - i]]

\* A variant of exportLogs that writes the newest entry first: C18 must tell
\* it from the code.
exportLogsNewestFirst(q) == Header \o <<NL>> \o JoinRows(Reversed(q))

exportLogs(q) == Header \o <<NL>> \o JoinRows(q)

\* LogSpec examines addLog and exportLogs on logs of up to MaxLogSlack
\* entries and on logs within MaxLogSlack entries of the cap; the entries
\* are numbered in their messages.
LogSizes == (0..MaxLogSlack) \cup ((LogCap - MaxLogSlack)..LogCap)
LogTypes == {"audio_detected", "volume_change"}

LogInit ==
  /\ \E n \in LogSizes :
        /\ Constructed([i \in 1..n |-> Entry("audio_silent", ToString(i), FALSE)])
        /\ unit = [kind |-> "log", appended |-> 0, serial |-> n,
                   exported |-> FALSE, csv |-> << >>]

AddLog ==
  /\ unit.appended < MaxLogAppends
  /\ \E type \in LogTypes :
        logs' = addLog(Cur, loggingEnabled,
                       Entry(type, ToString(unit.serial + 1), FALSE)).logs
  /\ unit' = [unit EXCEPT !.appended = @ + 1, !.serial = @ + 1]
  /\ UNCHANGED provider

ExportLogs ==
  /\ ~unit.exported
  /\ unit' = [unit EXCEPT !.exported = TRUE, !.csv = exportLogs(logs)]
  /\ UNCHANGED provider
  /\ UNCHANGED logs

LogNext == AddLog \/ ExportLogs

LogSpec == LogInit /\ [][LogNext]_vars

\* --------------------------------------------------- the restore on its own
\* RestoreSpec examines the restore effect (367-472) on stored values that
\* are absent, well-formed or malformed, for four of the sixteen keys: the
\* selected devices (JSON), the target volume (a number), rampEnabled (a
\* boolean) and the monitoring flag.  A stored number is the sequence of its
\* characters and a stored JSON array the sequence of its tokens; a stored
\* boolean is compared whole with 'true'.
Absent == << "null" >>
Digit == {ToString(d) : d \in 0..9}
DigitValue(c) == CHOOSE d \in 0..9 : ToString(d) = c

\* JavaScript's falsy strings: null and "".
Truthy(v) == v # Absent /\ v # << >>

\* parseInt (417): the value of the longest prefix of digits, NaN when there
\* is none.  The stored strings hold no white space and no sign.
RECURSIVE DigitsValue(_, _)
DigitsValue(v, n) == IF n = 0 THEN 0 ELSE DigitsValue(v, n - 1) * 10 + DigitValue(v[n])

parseInt(v) ==
  LET n == CHOOSE k \in 0..Len(v) :
              /\ \A i \in 1..k : v[i] \in Digit
              /\ k = Len(v) \/ v[k + 1] \notin Digit
  IN IF n = 0 THEN NaN ELSE DigitsValue(v, n)

\* JSON.parse (407) of an array of device ids: the ids between the brackets,
\* or a SyntaxError.
JsonOk(v) ==
  /\ Len(v) >= 2 /\ v[1] = "[" /\ v[Len(v)] = "]"
  /\ \A i \in 2..(Len(v) - 1) : v[i] \notin {"[", "]"}

JsonParse(v) == SubSeq(v, 2, Len(v) - 1)

DefaultSettings ==
  [selectedDevices |-> << >>, targetVolume |-> 100, rampEnabled |-> TRUE]

\* The stored values examined.
StoredDevices == {Absent, << >>, <<"[", "d1", "]">>, <<"[", "d1">>}
StoredNumbers == {Absent, << >>, <<"5", "0">>, <<"7">>, <<"x">>, <<"5", "x">>}
StoredBooleans == {Absent, <<"true">>, <<"false">>, <<"yes">>}

\* The restore effect (378-471) on the stored values st: what it sets, and
\* whether it schedules the auto-resume.  An exception leaves the try block
\* for the catch (468-471).
restoreEffect(st) ==
  LET wasMonitoring == st.monitoring = <<"true">>
      devices == IF Truthy(st.devices) THEN JsonParse(st.devices)
                 ELSE DefaultSettings.selectedDevices
      volume == IF Truthy(st.targetVolume) THEN parseInt(st.targetVolume)
                ELSE DefaultSettings.targetVolume
      ramp == IF st.rampEnabled # Absent THEN st.rampEnabled = <<"true">>
              ELSE DefaultSettings.rampEnabled
  IN IF Truthy(st.devices) /\ ~JsonOk(st.devices)
     THEN [settings |-> DefaultSettings, autoResume |-> FALSE, threw |-> TRUE]
     ELSE [settings |-> [selectedDevices |-> devices, targetVolume |-> volume,
                         rampEnabled |-> ramp],
           autoResume |-> wasMonitoring, threw |-> FALSE]

RestoreInit ==
  /\ Constructed(<< >>)
  /\ \E d \in StoredDevices, v \in StoredNumbers, r \in StoredBooleans,
        m \in StoredBooleans :
        unit = [kind |-> "restore",
                stored |-> [devices |-> d, targetVolume |-> v, rampEnabled |-> r,
                            monitoring |-> m],
                restored |-> FALSE,
                result |-> [settings |-> DefaultSettings, autoResume |-> FALSE,
                            threw |-> FALSE]]

Restore ==
  /\ ~unit.restored
  /\ unit' = [unit EXCEPT !.restored = TRUE, !.result = restoreEffect(unit.stored)]
  /\ UNCHANGED provider
  /\ UNCHANGED logs

RestoreNext == Restore

RestoreSpec == RestoreInit /\ [][RestoreNext]_vars

\* ------------------------------------------------- the level meter on its own
\* MeterSpec examines useAudioCapture (useAudioCapture.ts 18-185): the hook's
\* state, its refs, the animation frames requested and not yet run, and the
\* startCapture calls awaiting getUserMedia.  A callback made by useCallback
\* reads the `state` of the render that made it: a frame or a call in flight
\* carries the state.isCapturing its updateAudioLevel closed over.  The
\* signal is what the analyser would read.
NoFrame == [id |-> NULL, capturing |-> FALSE]

MeterInit ==
  /\ Constructed(<< >>)
  /\ \E level \in Levels :
        unit = [kind |-> "meter", isCapturing |-> FALSE, audioLevel |-> 0,
                analyserNodeRef |-> FALSE, animationFrameRef |-> NULL,
                frames |-> {}, awaiting |-> << >>, calls |-> 0, requested |-> 0,
                delivered |-> 0, ran |-> NoFrame, signal |-> level]

\* requestAnimationFrame(updateAudioLevel) (64, 130) for the updateAudioLevel
\* that closed over state.isCapturing = capturing.
requestFrame(u, capturing) ==
  [u EXCEPT !.requested = @ + 1,
            !.animationFrameRef = u.requested + 1,
            !.frames = @ \cup {[id |-> u.requested + 1, capturing |-> capturing]}]

\* updateAudioLevel (46-65), run as the frame f.
updateAudioLevel(u, f) ==
  LET u1 == [u EXCEPT !.frames = @ \ {f}, !.ran = f]
  IN IF ~u.analyserNodeRef \/ ~f.capturing THEN u1
     ELSE requestFrame([u1 EXCEPT !.audioLevel = u.signal, !.delivered = @ + 1],
                       f.capturing)

\* startCapture (67-138) up to `await getUserMedia`: the call keeps the
\* updateAudioLevel of the render it was made in.
startCapture(u) ==
  [u EXCEPT !.calls = @ + 1, !.awaiting = Append(@, u.isCapturing)]

\* startCapture once getUserMedia has settled for the i-th call awaiting it
\* (102-137).
startCaptureSettled(u, i, ok) ==
  LET rest == [k \in 1..(Len(u.awaiting) - 1) |->
                 IF k < i THEN u.awaiting[k] ELSE u.awaiting[k + 1]]
      u1 == [u EXCEPT !.awaiting = rest]
  IN IF ok
     THEN requestFrame([u1 EXCEPT !.analyserNodeRef = TRUE, !.isCapturing = TRUE],
                       u.awaiting[i])
     ELSE u1

\* stopCapture (140-185) in the hook.
stopCaptureHook(u) ==
  [u EXCEPT !.frames = {f \in @ : f.id # u.animationFrameRef},
            !.animationFrameRef = NULL,
            !.analyserNodeRef = FALSE,
            !.isCapturing = FALSE,
            !.audioLevel = 0]

MeterStep(u) ==
  /\ unit' = u
  /\ UNCHANGED provider
  /\ UNCHANGED logs

\* The callers start a capture while none is shown as running (live/page.tsx
\* 384-388) and stop one that is (396-399).
StartCapture ==
  /\ ~unit.isCapturing
  /\ unit.calls < MaxCaptures
  /\ MeterStep(startCapture(unit))

GetUserMediaSettled ==
  \E i \in 1..Len(unit.awaiting), ok \in BOOLEAN :
     /\ unit.requested < MaxFrames
     /\ MeterStep(startCaptureSettled(unit, i, ok))

AnimationFrame ==
  \E f \in unit.frames :
     /\ unit.requested < MaxFrames
     /\ MeterStep(updateAudioLevel(unit, f))

StopCapture ==
  /\ unit.isCapturing
  /\ MeterStep(stopCaptureHook(unit))

\* The input signal changes.
Signal ==
  \E level \in Levels \ {unit.signal} : MeterStep([unit EXCEPT !.signal = level])

MeterNext ==
  \/ StartCapture
  \/ GetUserMediaSettled
  \/ AnimationFrame
  \/ StopCapture
  \/ Signal

MeterSpec == MeterInit /\ [][MeterNext]_vars

\* ------------------------------------------------------------------- claims
\* A step in which the level meter delivers a sample.
SampleStep == samples' = samples + 1

\* A step in which the machine goes from Idle to Active.
Activation == ~speakersEnabled /\ speakersEnabled'

\* C1 (its "if" half, for the run in progress): whenever a sample is
\* processed while capturing and the unbroken run of samples strictly above
\* the threshold that it belongs to has lasted at least sustainDuration, the
\* machine is Active.  No silent run has followed a run still in progress.
C1_SustainedRunIsActive ==
  [][(SampleStep /\ runStart' # NULL /\ now - runStart' >= sustainDuration)
        => speakersEnabled']_vars

\* C2: a sample at or below the threshold leaves no sustain start recorded,
\* and the machine becomes Active only when the unbroken run of
\* above-threshold samples since the last silent sample has lasted at least
\* sustainDuration: a window cut short gives no credit.
C2_SilentSampleDiscardsWindow ==
  [][/\ (SampleStep /\ audioLevel' <= audioThreshold) => sustainedAudioStartRef' = NULL
     /\ Activation => (runStart' # NULL /\ now - runStart' >= sustainDuration)]_vars

\* C2's case: a silent sample cut a window short, and the machine was
\* activated afterwards.
C2_ActivatedAfterDiscard == discarded /\ speakersEnabled /\ enableSeq.pc # "idle"

\* C3: at most one of the enable sequence, the release timer's disable
\* sequence and stopMonitoring's disable sequence is in flight, and
\* controlling is true exactly while one is.
C3_SingleFlight ==
  /\ Cardinality({q \in {enableSeq, disableSeq, stopSeq} : q.pc # "idle"}) <= 1
  /\ controllingSpakersRef <=> InFlight(Cur) # "none"

\* C3's case: stopMonitoring was called with the speakers on while the enable
\* sequence was in flight, and started no sequence of its own.
C3_StopDuringEnable ==
  ~isCapturing /\ speakersEnabled /\ enableSeq.pc # "idle" /\ stopSeq.pc = "idle"

\* A call awaited by the control sequence in flight has yet to return (with
\* success or with failure): the sequence goes on when it does.
CallOutstanding ==
  \/ enableSeq.pc \in {"rec", "vol0", "enable"}
  \/ disableSeq.pc \in {"stopping", "convert", "upload", "geturl", "vol0", "disable"}
  \/ stopSeq.pc = "disable"

\* C4: controlling is true only while a call of the sequence that set it has
\* yet to return; once each of its calls has returned, controlling is false
\* again.
C4_ReleasedOnceCallsReturned == controllingSpakersRef => CallOutstanding

\* The state a dropped release trigger leaves once the sequence in flight is
\* over: Active and silent with no release timer pending.  (A silent effect
\* run while Active always leaves a timer pending; only the timer's own
\* callback, finding controlling = true, leaves none.)
DroppedRelease ==
  /\ isCapturing /\ speakersEnabled /\ audioDetected
  /\ ~controllingSpakersRef
  /\ ~audioDetectionTimeoutRef.set
  /\ audioLevel <= audioThreshold

\* C5 (the disable trigger): after a release trigger was dropped and the
\* sequence in flight is over, the next sample processed, if it is still
\* silent, performs the deactivation.
C5_DroppedReleaseNextTick ==
  [][(DroppedRelease /\ SampleStep /\ audioLevel' <= audioThreshold)
        => ~speakersEnabled']_vars

\* C6: once monitoring is stopped and no control sequence is in flight, the
\* last command the speakers received is not an enable and speakersEnabled is
\* false.
C6_StoppedMeansDisabled ==
  (~isCapturing /\ ~capturePending /\ ~controllingSpakersRef)
     => (~speakersEnabled /\ gateway.speakers # "enable")

\* C7: while monitoring is stopped no release timer starts a disable
\* sequence, and no sustain start is recorded.
C7_StopCancelsTimers ==
  [][~isCapturing => /\ ~(disableSeq.pc = "idle" /\ disableSeq'.pc # "idle")
                     /\ sustainedAudioStartRef = NULL]_vars

\* C8: no gateway or ramp operation is issued while controlling = true by
\* anything but the control sequence in flight.
C8_NoForeignOperation == ~gateway.foreign

\* C9: while the enable sequence is in flight, the log it found when it
\* began ended with the AudioDetected entry followed by the SpeakersEnabled
\* entry (the log being enabled).
C9_LoggedBeforeEnableSequence ==
  (enableSeq.pc # "idle" /\ enableSeq.logging)
     => enableSeq.logTail = << Entry("audio_detected", "sustained", FALSE),
                               Entry("speakers_enabled", "enabled", FALSE) >>

\* C9's case: an activation with the log enabled, its enable sequence
\* waiting for the recorder to start.
C9_EnableSequenceStarted ==
  enableSeq.pc = "rec" /\ enableSeq.logging /\ Len(logs) >= 2

\* A step that appends the release timer's SpeakersDisabled entry.
SilenceEntryAppended ==
  Len(logs') = Len(logs) + 1 /\ logs'[Len(logs')].msg = "silence"

\* The step in which stopRecordingAndUpload resolves, and the one in which
\* it resolves with a download URL.
UploadResolves ==
  /\ disableSeq.pc \in {"idle", "stopping", "convert", "upload", "geturl"}
  /\ disableSeq'.pc = "vol0"

UploadSucceeds == disableSeq.pc = "geturl" /\ mediaRecorderRef' = "null"

\* C10: the release timer's SpeakersDisabled entry is appended in the step
\* in which stopRecordingAndUpload resolves, never before, and it carries a
\* recording reference exactly when the upload succeeded (the log being
\* enabled).
C10_DisabledLoggedAfterUpload ==
  [][/\ SilenceEntryAppended
          => (UploadResolves /\ (logs'[Len(logs')].recordingUrl <=> UploadSucceeds))
     /\ (UploadResolves /\ disableSeq'.logging) => SilenceEntryAppended]_vars

\* C10's case: the upload succeeded and the entry with the reference is the
\* last of the log.
C10_LoggedWithRecording ==
  /\ disableSeq.pc \in {"vol0", "disable"} /\ disableSeq.uploaded
  /\ Len(logs) > 0
  /\ logs[Len(logs)] = Entry("speakers_disabled", "silence", TRUE)

\* C11: a failed gateway call (a response that is not ok, or an exception)
\* rejects no batch; a batch resolves only when every selected device has
\* received its call; and the control sequence goes on as a batch resolves:
\* once no sequence is in flight controlling is false and the machine is
\* Active after the enable sequence, Idle after a disable sequence.
C11_FailureDoesNotAbort ==
  unit.kind = "batch" =>
    /\ unit.batch.settled # "rejected"
    /\ unit.batch.settled = "resolved" => unit.batch.called = 1..unit.n
    /\ InFlight(Cur) # "none" => unit.batch.settled = "pending"
    /\ InFlight(Cur) = "none" =>
          (~controllingSpakersRef /\ (speakersEnabled <=> unit.seq = "enable"))

\* C11's case: the first of several devices failed the enable sequence's
\* calls, and the machine is Active with controlling cleared.
C11_ActiveDespiteFailure ==
  /\ unit.kind = "batch" /\ unit.seq = "enable" /\ unit.n > 1
  /\ unit.outcome[1] # "ok" /\ unit.failed
  /\ InFlight(Cur) = "none" /\ speakersEnabled /\ ~controllingSpakersRef
  /\ gateway.speakers = "enable"

\* A call of the recording pipeline awaited by the release timer's disable
\* sequence has yet to return.
RecorderCallOutstanding ==
  disableSeq.pc \in {"stopping", "convert", "upload", "geturl"}

\* C12: a deactivation begun by the release timer goes on to its gateway
\* calls as soon as no call of the recording pipeline is outstanding,
\* whatever became of the recording: the ramp is stopped, the volume
\* zeroed, and the disable call made or about to be made.
C12_DeactivationCompletes ==
  (disableSeq.pc # "idle" /\ ~RecorderCallOutstanding)
     => /\ disableSeq.pc \in {"vol0", "disable"}
        /\ gateway.volume = 0
        /\ ~volumeRampIntervalRef.set

\* The ramp under examination has been started with a non-zero duration.
RampRunning == unit.kind = "ramp" /\ unit.started /\ rampEnabled

\* C13: a ramp of non-zero duration, whatever its start and target, has
\* cleared its timer once its steps have had the time to run (one step more
\* than effectiveRampDuration / 500 allows for rounding), sends no more
\* than its start value, its intermediate values and the target, and when
\* its timer is cleared the target is the last command sent and was sent
\* once.
C13_RampTerminates ==
  RampRunning =>
    /\ now >= unit.startedAt + (RampSteps + 2) * TickMs => ~volumeRampIntervalRef.set
    /\ Len(sent.cmds) <= RampSteps + 2
    /\ ~volumeRampIntervalRef.set =>
          /\ sent.cmds[Len(sent.cmds)] = Pct(targetVolume)
          /\ \A i \in 1..(Len(sent.cmds) - 1) : sent.cmds[i] # Pct(targetVolume)

\* C14: once a ramp has been started with an effective duration of 0 (the
\* ramp disabled), the one command sent is the target, the volume held is
\* the target, and no ramp timer is running, that of a previous ramp
\* included; nothing more is sent as time goes on.
C14_InstantRamp ==
  (unit.kind = "ramp" /\ unit.started /\ ~rampEnabled)
     => /\ sent.cmds = << Pct(targetVolume) >>
        /\ currentVolumeRef = Pct(targetVolume)
        /\ ~volumeRampIntervalRef.set
        /\ liveIntervals = 0

\* C14's case: an instant ramp from a start value other than the target,
\* started while a previous ramp was running, two intervals ago.
C14_InstantRampLongAgo ==
  /\ unit.kind = "ramp" /\ unit.started /\ ~rampEnabled
  /\ unit.prev = "running" /\ unit.start # targetVolume
  /\ now >= unit.startedAt + 2 * TickMs

\* A step in which the target volume changes while the machine is Active, no
\* control sequence is in flight and a ramp is in progress.
RampRestart ==
  /\ targetVolume' # targetVolume
  /\ speakersEnabled /\ ~controllingSpakersRef
  /\ volumeRampIntervalRef.set

\* C15: there is never more than one live ramp timer, and a target change
\* during a ramp replaces the timer by one whose ramp starts at the volume
\* the old ramp had reached (sent to the speakers as the first command) and
\* leads to the new target in effectiveRampDuration / 500 equal steps.
C15_RestartFromCurrent ==
  [][/\ liveIntervals <= 1 /\ liveIntervals' <= 1
     /\ RampRestart =>
          /\ volumeRampIntervalRef'.set /\ liveIntervals' = 1
          /\ volumeRampIntervalRef'.due = now + TickMs
          /\ currentVolumeRef' = currentVolumeRef
          /\ gateway'.volume = currentVolumeRef
          /\ volumeRampIntervalRef'.target = Pct(targetVolume')
          /\ volumeRampIntervalRef'.inc * RampSteps
                = Pct(targetVolume') - currentVolumeRef]_vars

\* C15's case: a ramp restarted part of the way up, from a volume that is
\* neither the old ramp's start (0) nor its target (100).
C15_RestartedMidRamp ==
  /\ targetChanges > 0 /\ speakersEnabled
  /\ volumeRampIntervalRef.set /\ volumeRampIntervalRef.inc # 0
  /\ volumeRampIntervalRef.target = Pct(targetVolume)
  /\ currentVolumeRef > 0 /\ currentVolumeRef < Pct(100)
  /\ volumeRampIntervalRef.inc * RampSteps = Pct(targetVolume) - currentVolumeRef

\* C16: getEffectiveRampDuration returns 0 when the ramp is disabled;
\* otherwise, in day/night mode, 0 when dayStartHour <= h < dayEndHour and
\* nightRampDuration * 1000 when not; otherwise rampDuration * 1000.  With
\* the day from 6 to 18, hour 10 gives 0 and hour 22 the night duration.
C16_EffectiveDuration ==
  (unit.kind = "duration" /\ unit.called) =>
    LET c == unit.c
        h == unit.currentHour
    IN /\ ~c.rampEnabled => unit.result = 0
       /\ (c.rampEnabled /\ c.dayNightMode /\ c.dayStartHour <= h /\ h < c.dayEndHour)
             => unit.result = 0
       /\ (c.rampEnabled /\ c.dayNightMode /\ ~(c.dayStartHour <= h /\ h < c.dayEndHour))
             => unit.result = c.nightRampDuration * 1000
       /\ (c.rampEnabled /\ ~c.dayNightMode) => unit.result = c.rampDuration * 1000
       /\ (c.rampEnabled /\ c.dayNightMode /\ c.dayStartHour = 6 /\ c.dayEndHour = 18)
             => /\ h = 10 => unit.result = 0
                /\ h = 22 => unit.result = c.nightRampDuration * 1000

\* C16's case: day/night mode with the day from 6 to 18, asked at hour 22.
C16_NightAt22 ==
  /\ unit.kind = "duration" /\ unit.called
  /\ unit.c.rampEnabled /\ unit.c.dayNightMode
  /\ unit.c.dayStartHour = 6 /\ unit.c.dayEndHour = 18 /\ unit.currentHour = 22
  /\ unit.result = DefaultNightRamp * 1000

\* A step in which addLog appends an entry to the log on its own.
AddLogStep == unit.kind = "log" /\ unit'.appended = unit.appended + 1

\* C17: the log never holds more than LogCap = 500 entries; an entry
\* appended is the last of the log; appended to a log of 500 entries it
\* leaves 500 entries, the former second entry first and every other entry
\* one place earlier, unchanged; appended to a shorter log it changes
\* nothing else.
C17_LogCapped ==
  [][/\ Len(logs) <= LogCap /\ Len(logs') <= LogCap
     /\ AddLogStep =>
          /\ logs'[Len(logs')].msg = ToString(unit'.serial)
          /\ IF Len(logs) = LogCap
             THEN /\ Len(logs') = LogCap
                  /\ \A i \in 1..(LogCap - 1) : logs'[i] = logs[i + 1]
             ELSE /\ Len(logs') = Len(logs) + 1
                  /\ \A i \in 1..Len(logs) : logs'[i] = logs[i]]_vars

\* C17's case: one entry was appended to a log of 500 entries numbered from
\* 1: the log holds 500 entries, from entry 2 to entry 501.
C17_OldestEvicted ==
  /\ unit.kind = "log" /\ unit.appended = 1 /\ unit.serial = LogCap + 1
  /\ Len(logs) = LogCap
  /\ logs[1].msg = ToString(2) /\ logs[LogCap].msg = ToString(LogCap + 1)

\* The lines of the text t between the positions lo and hi, as
\* t.split("\n") gives them: the text is cut at a newline near its middle
\* and each part is split in turn.
RECURSIVE SplitLines(_, _, _)
SplitLines(t, lo, hi) ==
  LET mid == (lo + hi) \div 2
      up == {m \in mid..hi : t[m] = NL}
      down == {m \in lo..(mid - 1) : t[m] = NL}
      cut == IF up # {} THEN CHOOSE m \in up : \A j \in up : m <= j
             ELSE CHOOSE m \in down : \A j \in down : m >= j
  IN IF lo > hi THEN << << >> >>
     ELSE IF up = {} /\ down = {} THEN << SubSeq(t, lo, hi) >>
     ELSE SplitLines(t, lo, cut - 1) \o SplitLines(t, cut + 1, hi)

\* The data rows of an exported text: its lines after the first, but for an
\* empty last line.
IsRow(line) == line # << >>
DataRows(t) == SelectSeq(Tail(SplitLines(t, 1, Len(t))), IsRow)

\* A step in which exportLogs is called on the log on its own.
ExportStep == unit.kind = "log" /\ ~unit.exported /\ unit'.exported

\* C18: the text exported from a log of N entries consists of the header
\* line followed by exactly N lines, the i-th of them the row of the i-th
\* entry of the log (oldest first); the log is the same after the export.
C18_ExportRows ==
  [][ExportStep =>
       /\ Head(SplitLines(unit'.csv, 1, Len(unit'.csv))) = Header
       /\ DataRows(unit'.csv) = [i \in 1..Len(logs) |-> Row(logs[i])]
       /\ logs' = logs]_vars

\* C18's case: a full log whose oldest entry was evicted has been exported;
\* the text's first data cell after the header line is that of entry 2.
C18_FullLogExported ==
  /\ unit.kind = "log" /\ unit.exported
  /\ Len(logs) = LogCap /\ unit.appended = 1
  /\ Len(unit.csv) = Len(Header) + 1 + LogCap * (Len(Header) + 1) - 1
  /\ unit.csv[Len(Header) + 1 + Len(Header)] = ToString(2)

\* Is the stored value malformed: a number that is not a string of digits, a
\* boolean that is neither 'true' nor 'false', a JSON text that does not
\* parse?  An absent or empty value is not malformed.
MalformedNumber(v) == Truthy(v) /\ \E i \in 1..Len(v) : v[i] \notin Digit
MalformedBoolean(v) == v # Absent /\ v \notin {<<"true">>, <<"false">>}
MalformedJson(v) == Truthy(v) /\ ~JsonOk(v)

\* C19: after the restore, with at most one of the stored values malformed,
\* a field whose stored value is malformed has its default, every field
\* whose stored value is well-formed has the stored value, and the
\* auto-resume is scheduled exactly when the stored monitoring flag is
\* 'true'.
C19_MalformedValueIgnored ==
  (unit.kind = "restore" /\ unit.restored) =>
    LET st == unit.stored
        got == unit.result.settings
        bad == {f \in {"devices", "targetVolume", "rampEnabled"} :
                  \/ f = "devices" /\ MalformedJson(st.devices)
                  \/ f = "targetVolume" /\ MalformedNumber(st.targetVolume)
                  \/ f = "rampEnabled" /\ MalformedBoolean(st.rampEnabled)}
    IN Cardinality(bad) <= 1 =>
         /\ got.selectedDevices =
              IF Truthy(st.devices) /\ JsonOk(st.devices) THEN JsonParse(st.devices)
              ELSE DefaultSettings.selectedDevices
         /\ got.targetVolume =
              IF Truthy(st.targetVolume) /\ ~MalformedNumber(st.targetVolume)
              THEN parseInt(st.targetVolume)
              ELSE DefaultSettings.targetVolume
         /\ got.rampEnabled =
              IF st.rampEnabled \in {<<"true">>, <<"false">>}
              THEN st.rampEnabled = <<"true">>
              ELSE DefaultSettings.rampEnabled
         /\ unit.result.autoResume <=> st.monitoring = <<"true">>

\* C20: when the machine is Idle and no control sequence is in flight, no
\* capture is open: the recorder started at the activation was stopped by
\* the deactivation that ended it.
C20_NoCaptureWhenIdle ==
  (~speakersEnabled /\ ~controllingSpakersRef) => mediaRecorderRef # "recording"

\* C21: while the hook shows the capture as running (isCapturing, the
\* analyser connected) an animation frame is pending, so that the meter
\* delivers its next sample; and the frame that has just run while the
\* capture was running delivered a sample.
C21_MeterRunsWhileCapturing ==
  (unit.kind = "meter" /\ unit.isCapturing /\ unit.analyserNodeRef)
     => /\ unit.frames # {}
        /\ unit.ran # NoFrame => unit.delivered > 0

\* C22: the release timer's disable sequence keeps this order: the ramp is
\* stopped before the recorder is stopped and its clip uploaded (no ramp
\* timer is set while a call of the recording pipeline is outstanding), the
\* volumes are zeroed after that and before the gateway's disable call, and
\* controlling stays true until that call has returned.
C22_DisableOrder ==
  /\ RecorderCallOutstanding => ~volumeRampIntervalRef.set
  /\ disableSeq.pc \in {"vol0", "disable"}
        => (~volumeRampIntervalRef.set /\ controllingSpakersRef
            /\ mediaRecorderRef # "recording")
  /\ disableSeq.pc = "disable" => gateway.volume = 0

\* A step in which a release countdown begins: a release timer is set that
\* was not pending before.
CountdownBegins ==
  /\ audioDetectionTimeoutRef'.set
  /\ ~audioDetectionTimeoutRef.set \/ audioDetectionTimeoutRef'.due # audioDetectionTimeoutRef.due

\* C23: with the log enabled, a step in which a release countdown begins
\* appends exactly one AudioSilent entry, and an AudioSilent entry is
\* appended only in such a step and only when none was appended since the
\* last sample above the threshold (once per silence episode).
C23_SilentLoggedOnce ==
  [][/\ (CountdownBegins /\ loggingEnabled)
          => Cardinality({i \in (Len(logs) + 1)..Len(logs') :
                            logs'[i].type = "audio_silent"}) = 1
     /\ AppendedSilent => (CountdownBegins /\ ~silence.logged)]_vars

\* A step in which the release timer's callback deactivates the speakers.
ReleaseDeactivation ==
  /\ speakersEnabled /\ ~speakersEnabled'
  /\ disableSeq.pc = "idle" /\ disableSeq'.pc # "idle"

\* C24: a sample above the threshold leaves no release countdown pending; a
\* countdown that begins is due disableDelay later; and the release timer
\* deactivates the speakers only when audioLevel has been at or below the
\* threshold without interruption for at least disableDelay.
C24_FullDelayOfSilence ==
  [][/\ (SampleStep /\ audioLevel' > audioThreshold) => ~audioDetectionTimeoutRef'.set
     /\ CountdownBegins => audioDetectionTimeoutRef'.due = now + disableDelay
     /\ ReleaseDeactivation
          => (silence.since # NULL /\ now - silence.since >= disableDelay)]_vars

\* C24's case: a countdown was cancelled by a sample above the threshold, a
\* second silence has lasted disableDelay and the release timer has
\* deactivated the speakers.
C24_ReleasedAfterSecondSilence ==
  /\ unit.kind = "silence" /\ disableSeq.pc # "idle"
  /\ silence.cancelled /\ silence.since # NULL
  /\ now - silence.since >= disableDelay

\* A step of the control sequence q (its value before and after) in which it
\* moves on, and one in which it begins.
MovesOn(q, r) == q.pc # "idle" /\ r.pc # q.pc
Begins(q, r) == q.pc = "idle" /\ r.pc # "idle"

\* The frame half of C25: a control sequence in flight keeps the devices it
\* began with, and the gateway calls it makes as it moves on address them,
\* whatever the selection has become.
SequenceKeepsDevices ==
  /\ (enableSeq.pc # "idle" /\ enableSeq'.pc # "idle") => enableSeq'.devices = enableSeq.devices
  /\ (disableSeq.pc # "idle" /\ disableSeq'.pc # "idle")
        => disableSeq'.devices = disableSeq.devices
  /\ MovesOn(enableSeq, enableSeq') => gateway'.addressed = enableSeq.devices
  /\ (MovesOn(disableSeq, disableSeq') /\ disableSeq'.pc \in {"vol0", "disable"})
        => gateway'.addressed = disableSeq.devices

\* The other half: a control sequence that begins addresses the selection
\* as it is when it begins.
TransitionUsesSelection ==
  /\ Begins(enableSeq, enableSeq') => enableSeq'.devices = selectedDevices'
  /\ Begins(disableSeq, disableSeq') => disableSeq'.devices = selectedDevices'
  /\ Begins(stopSeq, stopSeq') => gateway'.addressed = selectedDevices'

\* C25: a change of the selection made while a control sequence is in
\* flight does not change the devices its remaining steps address, and
\* every control sequence that begins (the next transition) addresses the
\* selection as changed.
C25_ChangeAppliesNextTransition ==
  [][/\ SequenceKeepsDevices
     /\ (unit.kind = "devices" /\ unit.inFlight) => TransitionUsesSelection]_vars

\* A step in which a deactivation sends its disable command: the disable
\* sequence's controlSpeakers(false) (874) or stopMonitoring's (916).
DeactivationCommand ==
  \/ disableSeq.pc = "vol0" /\ disableSeq'.pc = "disable"
  \/ Begins(stopSeq, stopSeq')

\* C26: every speaker endpoint that was sent an enable command at the
\* activation is sent the disable command of the deactivation that ends it,
\* so that no endpoint is left with enable as its last command, also when
\* the selection was changed while the speakers were enabled.
C26_EnabledEndpointsDisabled ==
  [][DeactivationCommand => gateway'.enabledOn = {}]_vars

\* C27: audioDetected and speakersEnabled are equal in every reachable
\* state: set together by the activation, cleared together by every
\* deactivation, stopMonitoring's included.
C27_DetectedIffEnabled == audioDetected = speakersEnabled

\* C28: whenever speakersEnabled is false and no control sequence is in
\* flight, no ramp timer is running and the volume last commanded to the
\* devices is 0.
C28_IdleMeansSilent ==
  (~speakersEnabled /\ ~controllingSpakersRef)
     => (~volumeRampIntervalRef.set /\ liveIntervals = 0 /\ gateway.volume = 0)

\* C28's case: the speakers were enabled and have been deactivated, the
\* deactivation's sequence has ended and monitoring goes on.
C28_DeactivatedAndIdle ==
  /\ ~speakersEnabled /\ ~controllingSpakersRef
  /\ gateway.speakers = "disable" /\ isCapturing

\* C29: a change of targetVolume made while the speakers are enabled is
\* applied to the devices, also when it is made while a control sequence is
\* in flight: once the speakers are enabled with no control sequence in
\* flight and no ramp timer pending, the volume last commanded to the
\* devices is the targetVolume as it is now.
C29_TargetChangeApplied ==
  (speakersEnabled /\ ~controllingSpakersRef /\ ~volumeRampIntervalRef.set)
     => gateway.volume = Pct(targetVolume)

\* The positions of the entries of a type in the log.
EntriesOf(type) == {i \in 1..Len(logs) : logs[i].type = type}

\* C30: with the log enabled and nothing cleared or evicted, between any
\* two SpeakersEnabled entries of the log there is a SpeakersDisabled
\* entry: an activation is never logged before the deactivation that
\* preceded it, although that entry waits for the upload to resolve.
C30_DisabledBetweenEnabled ==
  \A i, j \in EntriesOf("speakers_enabled") :
     i < j => \E k \in EntriesOf("speakers_disabled") : i < k /\ k < j

\* C30's case: two activations are in the log, and the deactivation between
\* them was logged by the disable sequence once the upload of its
\* recording had resolved.
C30_ActivatedTwice ==
  \E i, j \in EntriesOf("speakers_enabled") :
     /\ i < j
     /\ \E k \in EntriesOf("speakers_disabled") :
           i < k /\ k < j /\ logs[k].msg = "silence" /\ logs[k].recordingUrl

====
